---- MODULE Spec2Model ----
(***************************************************************************)
(* A model of labor-quiz (src/main.py): the .docx question parser          *)
(* load_questions_from_docx, the Bing search wrapper bing_search, and the  *)
(* part of main that calls them.                                           *)
(*                                                                         *)
(* A Python str is modelled as a sequence of characters, each character a  *)
(* TLA+ string: "1" "2" "3" are decimal digits, "." and " " are themselves,*)
(* "TAB" is U+0009, "NL" is U+000A, "c1" .. "c5" are the circled digits    *)
(* U+2460 .. U+2464, and the remaining ones are letters.                   *)
(***************************************************************************)
EXTENDS Integers, Sequences, FiniteSets, TLC

VARIABLES
    paragraphs,      \* [p.text for p in doc.paragraphs] of the uploaded file
    text,            \* load_questions_from_docx: text
    start_idx,       \* load_questions_from_docx: start_idx
    i,               \* load_questions_from_docx: the loop index i
    questions,       \* load_questions_from_docx / main: questions
    origin,          \* history: origin[k] is the value of i that appended questions[k]
    orig_text,       \* history: the flat text of the previous upload (<<>> if none)
    orig_questions,  \* history: the questions parsed from the previous upload
    del_pos,         \* history: offset in orig_text of the anchor the re-upload lacks (0: none)
    pc,              \* the statement the program is at
    BING_API_KEY,    \* module global BING_API_KEY: TRUE when set (truthy)
    idx,             \* main: idx
    resp,            \* bing_search: resp, <<>> while unbound, <<the response>> once bound
    exc,             \* bing_search: the exception in flight ("none" if none)
    data,            \* bing_search: data
    result_list,     \* main: result_list
    shown            \* what the Streamlit page shows, in order

vars == <<paragraphs, text, start_idx, i, questions, origin, orig_text,
          orig_questions, del_pos, pc, BING_API_KEY, idx, resp, exc, data,
          result_list, shown>>

parserVars == <<paragraphs, text, start_idx, i, questions, origin, orig_text,
                orig_questions, del_pos>>

searchVars == <<BING_API_KEY, idx, resp, exc, data, result_list>>

----------------------------------------------------------------------------
(* Characters *)

Digits == {"1", "2", "3"}

\* CHOICE_REGEX = r"([①-⑤])"
ChoiceChars == {"c1", "c2", "c3", "c4", "c5"}

\* the canonical order of the circled digits
Canonical == <<"c1", "c2", "c3", "c4", "c5">>

\* the characters str.strip() removes
Whitespace == {" ", "TAB", "NL"}

\* the number of choices a question keeps (raw_choices[:5], len(raw_choices) < 5)
NumChoices == 5

\* len(parts) < 3
MinParts == 3

IsDigit(c) == c \in Digits

Min(S) == CHOOSE x \in S : \A y \in S : x <= y

Max(S) == CHOOSE x \in S : \A y \in S : x >= y

----------------------------------------------------------------------------
(* str and re operations used by load_questions_from_docx *)

\* s.strip()
Strip(s) ==
    LET keep == {k \in 1..Len(s) : s[k] \notin Whitespace}
    IN  IF keep = {} THEN <<>> ELSE SubSeq(s, Min(keep), Max(keep))

\* " ".join(ps)
RECURSIVE JoinSpace(_)
JoinSpace(ps) ==
    IF Len(ps) = 0 THEN <<>>
    ELSE IF Len(ps) = 1 THEN ps[1]
    ELSE ps[1] \o <<" ">> \o JoinSpace(Tail(ps))

\* a bug: the comprehension without its filter, [p.text.strip() for p in ...]
RECURSIVE StrippedAll(_)
StrippedAll(ps) ==
    IF Len(ps) = 0 THEN <<>>
    ELSE <<Strip(Head(ps))>> \o StrippedAll(Tail(ps))

\* [p.text.strip() for p in doc.paragraphs if p.text.strip()]
RECURSIVE StrippedNonEmpty(_)
StrippedNonEmpty(ps) ==
    IF Len(ps) = 0 THEN <<>>
    ELSE IF Strip(Head(ps)) # <<>>
         THEN <<Strip(Head(ps))>> \o StrippedNonEmpty(Tail(ps))
         ELSE StrippedNonEmpty(Tail(ps))

\* text = " ".join([p.text.strip() for p in doc.paragraphs if p.text.strip()])
FlatText(ps) == JoinSpace(StrippedNonEmpty(ps))

\* the first position >= p of s that holds no digit (Len(s) + 1 if none)
DigitsEnd(s, p) == Min({q \in p..(Len(s) + 1) : q > Len(s) \/ ~IsDigit(s[q])})

\* a bug: the pattern r"(\d+)\.\s", any whitespace character after the dot
MatchesAtAnySpace(s, p) ==
    /\ p <= Len(s)
    /\ IsDigit(s[p])
    /\ LET q == DigitsEnd(s, p)
       IN  /\ q + 1 <= Len(s)
           /\ s[q] = "."
           /\ s[q + 1] \in Whitespace

\* whether r"(\d+)\. " matches at position p (1-based) of s; the greedy digit
\* run must be followed by "." and one space
MatchesAt(s, p) ==
    /\ p <= Len(s)
    /\ IsDigit(s[p])
    /\ LET q == DigitsEnd(s, p)
       IN  /\ q + 1 <= Len(s)
           /\ s[q] = "."
           /\ s[q + 1] = " "

\* [(m.start(), m.group()) for m in re.finditer(r"(\d+)\. ", text)] from
\* position p on: left to right, the scan resuming after each match
RECURSIVE Finditer(_, _)
Finditer(s, p) ==
    IF p > Len(s) THEN <<>>
    ELSE IF MatchesAt(s, p)
         THEN LET q == DigitsEnd(s, p)
              IN  <<[start |-> p - 1, group |-> SubSeq(s, p, q + 1)]>>
                  \o Finditer(s, q + 2)
         ELSE Finditer(s, p + 1)

\* start_idx after start_idx.append((len(text), None))
StartIdx(s) == Finditer(s, 1) \o <<[start |-> Len(s), group |-> "None"]>>

\* text[begin:end].strip() for entries k and k + 1 of idxs (k is 1-based)
Segment(s, idxs, k) == Strip(SubSeq(s, idxs[k].start + 1, idxs[k + 1].start))

\* re.split(CHOICE_REGEX, segment): the pieces between the anchors, with the
\* anchors (the captured group) as pieces of their own
RECURSIVE ReSplit(_)
ReSplit(s) ==
    LET at == {k \in 1..Len(s) : s[k] \in ChoiceChars}
    IN  IF at = {} THEN <<s>>
        ELSE LET k == Min(at)
             IN  <<SubSeq(s, 1, k - 1), <<s[k]>>>>
                 \o ReSplit(SubSeq(s, k + 1, Len(s)))

\* a bug: split without maxsplit, s.split(". ")[-1]
SplitDotLast(s) ==
    LET at == {k \in 1..(Len(s) - 1) : s[k] = "." /\ s[k + 1] = " "}
    IN  IF at = {} THEN s ELSE SubSeq(s, Max(at) + 2, Len(s))

\* s.split(". ", 1)[-1]
SplitDotOnceLast(s) ==
    LET at == {k \in 1..(Len(s) - 1) : s[k] = "." /\ s[k + 1] = " "}
    IN  IF at = {} THEN s ELSE SubSeq(s, Min(at) + 2, Len(s))

\* q_body = parts[0].split(". ", 1)[-1].strip()
QBody(parts) == Strip(SplitDotOnceLast(parts[1]))

\* raw_choices = [parts[j] + parts[j + 1] for j in range(1, len(parts) - 1, 2)]
RawChoices(parts) ==
    [k \in 1..((Len(parts) - 1) \div 2) |-> parts[2 * k] \o parts[2 * k + 1]]

\* a bug: a segment with four choices passes the test
TooFewOffByOne(raw_choices) == Len(raw_choices) < NumChoices - 1

\* if len(raw_choices) < 5
TooFew(raw_choices) == Len(raw_choices) < NumChoices

\* a bug: the first value of a repeated key is kept (dict.setdefault)
DictPutFirstWins(d, key, value) ==
    IF \E k \in 1..Len(d) : d[k].key = key
    THEN d
    ELSE Append(d, [key |-> key, value |-> value])

\* d[key] = value on a dict kept as its items in insertion order
DictPut(d, key, value) ==
    IF \E k \in 1..Len(d) : d[k].key = key
    THEN [k \in 1..Len(d) |->
            IF d[k].key = key THEN [key |-> key, value |-> value] ELSE d[k]]
    ELSE Append(d, [key |-> key, value |-> value])

\* {c[0]: c[1:].strip() for c in cs}
RECURSIVE DictOf(_)
DictOf(cs) ==
    IF Len(cs) = 0 THEN <<>>
    ELSE LET c == cs[Len(cs)]
         IN  DictPut(DictOf(SubSeq(cs, 1, Len(cs) - 1)), c[1], Strip(Tail(c)))

\* choices = {c[0]: c[1:].strip() for c in raw_choices[:5]}
Choices(raw_choices) ==
    DictOf(SubSeq(raw_choices, 1, IF Len(raw_choices) < NumChoices
                                  THEN Len(raw_choices) ELSE NumChoices))

----------------------------------------------------------------------------
(* The documents the model uploads *)

\* the most paragraphs an uploaded document holds
MaxParas == 2

\* the most result items a search response holds
MaxItems == 2

Labelled(lab, sep, c) == sep \o <<lab>> \o sep \o c

\* a question written the expected way: the numeral, the question text, then
\* the five choices in canonical order, with sep around each anchor
Render(d) ==
    d.num \o d.q
      \o Labelled("c1", d.sep, d.c[1]) \o Labelled("c2", d.sep, d.c[2])
      \o Labelled("c3", d.sep, d.c[3]) \o Labelled("c4", d.sep, d.c[4])
      \o Labelled("c5", d.sep, d.c[5])

Descriptors ==
    [num : {<<"1", ".", " ">>, <<"1", "2", ".", " ", " ">>},
     q   : {<<"Q">>, <<"Q", ".", " ", "R">>},
     c   : {<< <<"a", "1">>, <<>>, <<"c", " ", "d">>, <<"d", ".">>, <<"e", "3">> >>},
     sep : {<<>>, <<" ">>}]

WellFormedParas == {Render(d) : d \in Descriptors}

OtherParas ==
    { <<>>,
      <<" ", " ">>,
      <<"Q", " ", "R">>,
      <<"Q", "NL", "R">>,
      <<"1", ".", " ", "Q">>,
      <<"c1", "a", " ", "c2", "b", " ", "c3", "c", " ", "c4", "d", " ", "c5", "e">>,
      \* a label twice
      <<"1", ".", " ", "Q", " ", "c1", "a", " ", "c1", "b", " ", "c2", "c", " ",
        "c3", "d", " ", "c4", "e">>,
      \* labels out of order
      <<"3", ".", " ", "Q", " ", "c2", "a", " ", "c1", "b", " ", "c3", "c", " ",
        "c4", "d", " ", "c5", "e">>,
      \* the first anchor right after the numeral
      <<"2", ".", " ", "c1", "a", " ", "c2", "b", " ", "c3", "c", " ", "c4", "d",
        " ", "c5", "e">>,
      \* four anchors
      <<"2", ".", " ", "Q", " ", "c1", "a", " ", "c2", "b", " ", "c3", "c", " ",
        "c4", "d">>,
      \* six anchors
      <<"1", ".", " ", "Q", " ", "c1", "a", " ", "c2", "b", " ", "c3", "c", " ",
        "c4", "d", " ", "c5", "e", " ", "c1", "f">>,
      \* a tab after the numeral's dot
      <<"2", ".", "TAB", "R", " ", "c1", "a", " ", "c2", "b", " ", "c3", "c", " ",
        "c4", "d", " ", "c5", "e">>,
      \* a digit before and a dot after the last anchor
      <<"1", ".", " ", "Q", " ", "c1", "a", " ", "c2", "b", " ", "c3", "c", " ",
        "c4", "d", " ", "3", "c5", ".", " ", "e">> }

Pool == WellFormedParas \cup OtherParas

Docs == UNION {[1..n -> Pool] : n \in 0..MaxParas}

----------------------------------------------------------------------------
(* load_questions_from_docx, one action per statement or loop iteration *)

\* one message on the page
Msg(kind, what) == [kind |-> kind, what |-> what]

\* text[pos] removed (pos is a 0-based offset)
DeleteAt(s, pos) == SubSeq(s, 1, pos) \o SubSeq(s, pos + 2, Len(s))

\* the number of choice anchors of a segment
AnchorCount(seg) == Cardinality({k \in 1..Len(seg) : seg[k] \in ChoiceChars})

\* doc = Document(path); text = " ".join(...)
ReadParagraphs ==
    /\ pc = "load"
    /\ text' = FlatText(paragraphs)
    /\ pc' = "finditer"
    /\ UNCHANGED <<paragraphs, start_idx, i, questions, origin, orig_text,
                   orig_questions, del_pos, searchVars, shown>>

\* start_idx = [...]; start_idx.append((len(text), None)); questions = []
FindAnchors ==
    /\ pc = "finditer"
    /\ start_idx' = StartIdx(text)
    /\ questions' = <<>>
    /\ origin' = <<>>
    /\ i' = 0
    /\ pc' = "loop"
    /\ UNCHANGED <<paragraphs, text, orig_text, orig_questions, del_pos,
                   searchVars, shown>>

\* the parts of the segment the loop is at
Parts == ReSplit(Segment(text, start_idx, i + 1))

InLoop == pc = "loop" /\ i < Len(start_idx) - 1

\* if len(parts) < 3: continue
SkipNoChoices ==
    /\ InLoop
    /\ Len(Parts) < MinParts
    /\ i' = i + 1
    /\ UNCHANGED <<paragraphs, text, start_idx, questions, origin, orig_text,
                   orig_questions, del_pos, pc, searchVars, shown>>

\* if len(raw_choices) < 5: continue
SkipFewChoices ==
    /\ InLoop
    /\ Len(Parts) >= MinParts
    /\ TooFew(RawChoices(Parts))
    /\ i' = i + 1
    /\ UNCHANGED <<paragraphs, text, start_idx, questions, origin, orig_text,
                   orig_questions, del_pos, pc, searchVars, shown>>

\* the record questions.append(...) appends
Question(parts) ==
    [question |-> QBody(parts), choices |-> Choices(RawChoices(parts))]

\* questions.append({"question": q_body, "choices": choices})
AppendQuestion ==
    /\ InLoop
    /\ Len(Parts) >= MinParts
    /\ ~TooFew(RawChoices(Parts))
    /\ questions' = Append(questions, Question(Parts))
    /\ origin' = Append(origin, i)
    /\ i' = i + 1
    /\ UNCHANGED <<paragraphs, text, start_idx, orig_text, orig_questions,
                   del_pos, pc, searchVars, shown>>

\* return questions
ReturnQuestions ==
    /\ pc = "loop"
    /\ i >= Len(start_idx) - 1
    /\ pc' = "parsed"
    /\ UNCHANGED <<parserVars, searchVars, shown>>

\* main: if not questions: st.error(...); return
ParseFailed ==
    /\ pc = "parsed"
    /\ questions = <<>>
    /\ shown' = Append(shown, Msg("error", "parse"))
    /\ pc' = "done"
    /\ UNCHANGED <<parserVars, searchVars>>

\* main: idx = st.number_input(...); q = questions[idx - 1]; st.write, st.radio
ShowQuestion ==
    /\ pc = "parsed"
    /\ questions # <<>>
    /\ \E n \in 1..Len(questions) :
          /\ idx' = n
          /\ shown' = Append(shown, Msg("question", "shown"))
    /\ pc' = "button"
    /\ UNCHANGED <<parserVars, BING_API_KEY, resp, exc, data, result_list>>

\* whether every segment of the parsed text holds exactly five choice anchors
AllSegmentsFive ==
    /\ Len(start_idx) > 1
    /\ \A k \in 1..(Len(start_idx) - 1) :
          AnchorCount(Segment(text, start_idx, k)) = NumChoices

\* main runs again on a new upload: the document whose text is the previous
\* one with one choice anchor of one segment removed
UploadWithoutAnchor ==
    /\ pc \in {"button", "done"}
    /\ del_pos = 0
    /\ orig_text = <<>>
    /\ AllSegmentsFive
    /\ \E pos \in start_idx[1].start .. (Len(text) - 1) :
          /\ text[pos + 1] \in ChoiceChars
          /\ paragraphs' = <<DeleteAt(text, pos)>>
          /\ del_pos' = pos
    /\ orig_text' = text
    /\ orig_questions' = questions
    /\ text' = <<>>
    /\ start_idx' = <<>>
    /\ i' = 0
    /\ questions' = <<>>
    /\ origin' = <<>>
    /\ idx' = 0
    /\ shown' = <<>>
    /\ pc' = "load"
    /\ UNCHANGED <<BING_API_KEY, resp, exc, data, result_list>>

InitParser ==
    /\ paragraphs \in Docs
    /\ text = <<>>
    /\ start_idx = <<>>
    /\ i = 0
    /\ questions = <<>>
    /\ origin = <<>>
    /\ orig_text = <<>>
    /\ orig_questions = <<>>
    /\ del_pos = 0
    /\ pc = "load"
    /\ BING_API_KEY = TRUE
    /\ idx = 0
    /\ resp = <<>>
    /\ exc = "none"
    /\ data = <<>>
    /\ result_list = <<>>
    /\ shown = <<>>

NextParser ==
    \/ ReadParagraphs
    \/ FindAnchors
    \/ SkipNoChoices
    \/ SkipFewChoices
    \/ AppendQuestion
    \/ ReturnQuestions
    \/ ParseFailed
    \/ ShowQuestion
    \/ UploadWithoutAnchor

SpecParser == InitParser /\ [][NextParser]_vars

----------------------------------------------------------------------------
(* bing_search and the part of main that calls it *)

\* the items a "value" list may hold: with and without name, url, snippet
ItemKinds ==
    { [name |-> "n", url |-> "u", snippet |-> "s"],
      [name |-> "n", url |-> "u"],
      [url |-> "u", snippet |-> "s"],
      [name |-> "n", snippet |-> "s"] }

ItemSeqs == UNION {[1..n -> ItemKinds] : n \in 0..MaxItems}

\* a response body: json says whether it decodes as JSON, top whether the
\* decoded value is an object, webPages and value what the object holds
\* under those keys, items the members of a "value" that is a list
NotJsonBody ==
    [json |-> FALSE, top |-> "other", webPages |-> "absent", value |-> "absent",
     items |-> <<>>]

Bodies ==
    {NotJsonBody}
    \cup {[json |-> TRUE, top |-> "other", webPages |-> "absent",
           value |-> "absent", items |-> <<>>]}
    \cup {[json |-> TRUE, top |-> "object", webPages |-> w, value |-> "absent",
           items |-> <<>>] : w \in {"absent", "other"}}
    \cup {[json |-> TRUE, top |-> "object", webPages |-> "object", value |-> v,
           items |-> <<>>] : v \in {"absent", "other"}}
    \cup {[json |-> TRUE, top |-> "object", webPages |-> "object",
           value |-> "list", items |-> it] : it \in ItemSeqs}

StatusOK == 200

ErrorStatuses == {401, 500}

Responses ==
    {[status |-> StatusOK, body |-> b] : b \in Bodies}
    \cup {[status |-> s, body |-> NotJsonBody] : s \in ErrorStatuses}

\* what requests.get may raise instead of returning: ConnectTimeout is both a
\* ConnectionError and a Timeout, "RequestException" stands for the subclasses
\* no earlier handler names (TooManyRedirects, InvalidURL, InvalidHeader ...),
\* "Exception" for anything that is no RequestException
GetRaises ==
    {"ConnectionError", "ConnectTimeout", "Timeout", "RequestException", "Exception"}

\* the list comprehension of the return statement, for a data whose items
\* all hold name and url
Results(items) ==
    [k \in 1..Len(items) |->
        [name |-> items[k].name, url |-> items[k].url,
         snippet |-> IF "snippet" \in DOMAIN items[k] THEN items[k].snippet ELSE ""]]

\* whether the list comprehension raises KeyError
ItemKeyError(items) ==
    \E k \in 1..Len(items) : ~({"name", "url"} \subseteq DOMAIN items[k])

\* main: what follows result_list = bing_search(...)
MainMessage(rl) ==
    IF rl = <<>> THEN <<Msg("warning", "no_results_or_config")>>
    ELSE <<Msg("results", "links"), Msg("info", "see_links")>>

\* main: if st.button("검색 결과 보기"): ... bing_search(...)
ClickSearch ==
    /\ pc = "button"
    /\ del_pos = 0
    /\ pc' = "bing_search"
    /\ UNCHANGED <<parserVars, searchVars, shown>>

\* if not BING_API_KEY: st.error(...); return []
NoApiKey ==
    /\ pc = "bing_search"
    /\ ~BING_API_KEY
    /\ shown' = Append(shown, Msg("error", "no_api_key"))
    /\ result_list' = <<>>
    /\ pc' = "returned"
    /\ UNCHANGED <<parserVars, BING_API_KEY, idx, resp, exc, data>>

\* resp = requests.get(...) raises: resp stays unbound
RequestGetRaises ==
    /\ pc = "bing_search"
    /\ BING_API_KEY
    /\ \E e \in GetRaises : exc' = e
    /\ pc' = "except"
    /\ UNCHANGED <<parserVars, BING_API_KEY, idx, resp, data, result_list, shown>>

\* resp = requests.get(...) returns a response
RequestGetReturns ==
    /\ pc = "bing_search"
    /\ BING_API_KEY
    /\ \E r \in Responses : resp' = <<r>>
    /\ pc' = "raise_for_status"
    /\ UNCHANGED <<parserVars, BING_API_KEY, idx, exc, data, result_list, shown>>

\* resp.raise_for_status()
RaiseForStatus ==
    /\ pc = "raise_for_status"
    /\ IF resp[1].status >= 400 /\ resp[1].status < 600
       THEN exc' = "HTTPError" /\ pc' = "except"
       ELSE exc' = exc /\ pc' = "json"
    /\ UNCHANGED <<parserVars, BING_API_KEY, idx, resp, data, result_list, shown>>

\* resp.json() raises and except json.JSONDecodeError catches it (the error
\* requests raises is a json.JSONDecodeError): st.error, st.code, return []
JsonDecodeError ==
    /\ pc = "json"
    /\ ~resp[1].body.json
    /\ shown' = shown \o <<Msg("error", "json"), Msg("code", "body")>>
    /\ result_list' = <<>>
    /\ pc' = "returned"
    /\ UNCHANGED <<parserVars, BING_API_KEY, idx, resp, exc, data>>

\* data = resp.json().get("webPages", {}).get("value", [])
\* .get on a value that is no dict raises AttributeError
GetValue ==
    /\ pc = "json"
    /\ resp[1].body.json
    /\ IF resp[1].body.top # "object" \/ resp[1].body.webPages = "other"
       THEN exc' = "Exception" /\ pc' = "except" /\ data' = data
       ELSE /\ exc' = exc
            /\ pc' = "build"
            /\ data' = IF resp[1].body.webPages = "absent" \/ resp[1].body.value = "absent"
                       THEN [list |-> TRUE, items |-> <<>>]
                       ELSE [list |-> resp[1].body.value = "list", items |-> resp[1].body.items]
    /\ UNCHANGED <<parserVars, BING_API_KEY, idx, resp, result_list, shown>>

\* return [{"name": item["name"], ...} for item in data]
\* a data that is no list, or an item without name or url, raises
BuildResults ==
    /\ pc = "build"
    /\ IF ~data.list \/ ItemKeyError(data.items)
       THEN exc' = "Exception" /\ pc' = "except" /\ result_list' = result_list
       ELSE exc' = exc /\ pc' = "returned" /\ result_list' = Results(data.items)
    /\ UNCHANGED <<parserVars, BING_API_KEY, idx, resp, data, shown>>

\* except requests.exceptions.HTTPError as e
HandleHTTPError ==
    /\ pc = "except"
    /\ exc = "HTTPError"
    /\ shown' = shown \o <<Msg("error", "http"), Msg("code", "body")>>
    /\ result_list' = <<>>
    /\ exc' = "none"
    /\ pc' = "returned"
    /\ UNCHANGED <<parserVars, BING_API_KEY, idx, resp, data>>

\* except requests.exceptions.ConnectionError as e
HandleConnectionError ==
    /\ pc = "except"
    /\ exc \in {"ConnectionError", "ConnectTimeout"}
    /\ shown' = Append(shown, Msg("error", "connection"))
    /\ result_list' = <<>>
    /\ exc' = "none"
    /\ pc' = "returned"
    /\ UNCHANGED <<parserVars, BING_API_KEY, idx, resp, data>>

\* except requests.exceptions.Timeout
HandleTimeout ==
    /\ pc = "except"
    /\ exc = "Timeout"
    /\ shown' = Append(shown, Msg("error", "timeout"))
    /\ result_list' = <<>>
    /\ exc' = "none"
    /\ pc' = "returned"
    /\ UNCHANGED <<parserVars, BING_API_KEY, idx, resp, data>>

\* except requests.exceptions.RequestException as e: st.error(...); if resp: ...
\* reading the unbound local resp raises UnboundLocalError inside the handler,
\* which no later except clause of the same try catches
HandleRequestException ==
    /\ pc = "except"
    /\ exc = "RequestException"
    /\ IF resp = <<>>
       THEN /\ shown' = Append(shown, Msg("error", "request"))
            /\ exc' = "UnboundLocalError"
            /\ pc' = "propagated"
            /\ result_list' = result_list
       ELSE /\ shown' = IF resp[1].status < 400
                        THEN shown \o <<Msg("error", "request"), Msg("code", "body")>>
                        ELSE Append(shown, Msg("error", "request"))
            /\ exc' = "none"
            /\ pc' = "returned"
            /\ result_list' = <<>>
    /\ UNCHANGED <<parserVars, BING_API_KEY, idx, resp, data>>

\* except Exception as e
HandleException ==
    /\ pc = "except"
    /\ exc = "Exception"
    /\ shown' = Append(shown, Msg("error", "unexpected"))
    /\ result_list' = <<>>
    /\ exc' = "none"
    /\ pc' = "returned"
    /\ UNCHANGED <<parserVars, BING_API_KEY, idx, resp, data>>

\* main: if not result_list: st.warning(...) else: the results
ShowResults ==
    /\ pc = "returned"
    /\ shown' = shown \o MainMessage(result_list)
    /\ pc' = "done"
    /\ UNCHANGED <<parserVars, searchVars>>

\* the whole loop of load_questions_from_docx from segment k on
RECURSIVE QuestionsFrom(_, _, _)
QuestionsFrom(s, idxs, k) ==
    IF k > Len(idxs) - 1 THEN <<>>
    ELSE LET parts == ReSplit(Segment(s, idxs, k))
         IN  IF Len(parts) < MinParts \/ TooFew(RawChoices(parts))
             THEN QuestionsFrom(s, idxs, k + 1)
             ELSE <<Question(parts)>> \o QuestionsFrom(s, idxs, k + 1)

\* load_questions_from_docx on the flat text s
LoadQuestions(s) == QuestionsFrom(s, StartIdx(s), 1)

\* the documents the search is tried on: one and two well-formed questions
SearchDocs ==
    { <<Render([num |-> <<"1", ".", " ">>, q |-> <<"Q">>, sep |-> <<" ">>,
                c |-> << <<"a">>, <<"b">>, <<"c">>, <<"d">>, <<"e">> >>])>>,
      <<Render([num |-> <<"1", ".", " ">>, q |-> <<"Q">>, sep |-> <<>>,
                c |-> << <<"a">>, <<"b">>, <<"c">>, <<"d">>, <<"e">> >>]),
        Render([num |-> <<"1", "2", ".", " ", " ">>, q |-> <<"Q", ".", " ", "R">>,
                sep |-> <<" ">>,
                c |-> << <<"a">>, <<"b">>, <<"c">>, <<"d">>, <<"e">> >>])>> }

\* main has parsed an upload, shown question idx and waits for the button
InitSearch ==
    /\ paragraphs \in SearchDocs
    /\ text = FlatText(paragraphs)
    /\ start_idx = StartIdx(text)
    /\ i = Len(start_idx) - 1
    /\ questions = LoadQuestions(text)
    /\ origin = [k \in 1..Len(questions) |-> k - 1]
    /\ orig_text = <<>>
    /\ orig_questions = <<>>
    /\ del_pos = 0
    /\ pc = "button"
    /\ BING_API_KEY \in BOOLEAN
    /\ idx \in 1..Len(questions)
    /\ resp = <<>>
    /\ exc = "none"
    /\ data = <<>>
    /\ result_list = <<>>
    /\ shown = <<Msg("question", "shown")>>

NextSearch ==
    \/ ClickSearch
    \/ NoApiKey
    \/ RequestGetRaises
    \/ RequestGetReturns
    \/ RaiseForStatus
    \/ JsonDecodeError
    \/ GetValue
    \/ BuildResults
    \/ HandleHTTPError
    \/ HandleConnectionError
    \/ HandleTimeout
    \/ HandleRequestException
    \/ HandleException
    \/ ShowResults

SpecSearch == InitSearch /\ [][NextSearch]_vars

----------------------------------------------------------------------------
(* Operators the properties are stated with *)

\* the positions of the choice anchors of seg
AnchorsOf(seg) == {k \in 1..Len(seg) : seg[k] \in ChoiceChars}

\* the first five of them
FirstFive(seg) ==
    {a \in AnchorsOf(seg) : Cardinality({r \in AnchorsOf(seg) : r < a}) < NumChoices}

\* the anchor that follows position a, or one past the end of seg
NextAnchorOrEnd(seg, a) ==
    IF \E r \in AnchorsOf(seg) : r > a
    THEN Min({r \in AnchorsOf(seg) : r > a})
    ELSE Len(seg) + 1

\* the trimmed text of seg strictly between positions a and b
Between(seg, a, b) == Strip(SubSeq(seg, a + 1, b - 1))

\* the segment questions[k] was built from
SegmentOf(k) == Segment(text, start_idx, origin[k] + 1)

\* the 0-based offsets where a maximal run of digits, a dot and a character
\* of the set after begin
AnchorStarts(s, after) ==
    {p \in 0..(Len(s) - 1) :
        /\ IsDigit(s[p + 1])
        /\ p = 0 \/ ~IsDigit(s[p])
        /\ \E q \in (p + 2)..(Len(s) - 1) :
              /\ \A r \in (p + 1)..(q - 1) : IsDigit(s[r])
              /\ s[q] = "."
              /\ s[q + 1] \in after}

\* start_idx holds exactly the offsets of starts, in increasing order, then
\* the sentinel at len(text)
RecordsAnchors(starts) ==
    /\ Len(start_idx) = Cardinality(starts) + 1
    /\ {start_idx[k].start : k \in 1..(Len(start_idx) - 1)} = starts
    /\ \A k \in 1..(Len(start_idx) - 1) : start_idx[k].start < start_idx[k + 1].start
    /\ start_idx[Len(start_idx)].start = Len(text)

\* start_idx has been computed from text
Scanned == pc \notin {"load", "finditer"}

\* s without its whitespace characters
RECURSIVE Ink(_)
Ink(s) ==
    IF s = <<>> THEN <<>>
    ELSE IF Head(s) \in Whitespace THEN Ink(Tail(s))
    ELSE <<Head(s)>> \o Ink(Tail(s))

\* the ink of all paragraphs, in order
RECURSIVE InkOfAll(_)
InkOfAll(ps) == IF ps = <<>> THEN <<>> ELSE Ink(Head(ps)) \o InkOfAll(Tail(ps))

Blank(p) == \A k \in 1..Len(p) : p[k] \in Whitespace

\* the positions of p from its first to its last non-whitespace character
Core(p) ==
    {k \in 1..Len(p) :
        /\ \E a \in 1..k : p[a] \notin Whitespace
        /\ \E b \in k..Len(p) : p[b] \notin Whitespace}

RECURSIVE SumCore(_)
SumCore(ps) == IF ps = <<>> THEN 0 ELSE Cardinality(Core(Head(ps))) + SumCore(Tail(ps))

RECURSIVE SumCoreNewlines(_)
SumCoreNewlines(ps) ==
    IF ps = <<>> THEN 0
    ELSE Cardinality({k \in Core(Head(ps)) : Head(ps)[k] = "NL"})
         + SumCoreNewlines(Tail(ps))

NonBlankCount(ps) == Cardinality({k \in 1..Len(ps) : ~Blank(ps[k])})

\* the paragraphs in order, trimmed, one space between the non-blank ones,
\* nothing for the blank ones
JoinedInOrder ==
    /\ Ink(text) = InkOfAll(paragraphs)
    /\ Len(text) = SumCore(paragraphs)
                   + (IF NonBlankCount(paragraphs) = 0 THEN 0
                      ELSE NonBlankCount(paragraphs) - 1)
    /\ text # <<>> => text[1] \notin Whitespace /\ text[Len(text)] \notin Whitespace

\* questions with its k-th record removed
RemoveAt(qs, k) == SubSeq(qs, 1, k - 1) \o SubSeq(qs, k + 1, Len(qs))

\* the number of the segment of orig_text that holds offset pos
SegmentAt(pos) == Cardinality({p \in AnchorStarts(orig_text, {" "}) : p <= pos})

\* the record of a question written as d says
Expected(d) ==
    [question |-> d.q,
     choices  |-> [j \in 1..NumChoices |-> [key |-> Canonical[j], value |-> d.c[j]]]]

WellFormedDoc ==
    /\ del_pos = 0
    /\ paragraphs # <<>>
    /\ \A k \in 1..Len(paragraphs) : paragraphs[k] \in WellFormedParas

Trimmed(s) == s = <<>> \/ (s[1] \notin Whitespace /\ s[Len(s)] \notin Whitespace)

\* bing_search ran into a failure of the request or of decoding its body
RequestFailed ==
    \/ resp = <<>>
    \/ resp[1].status >= 400
    \/ ~resp[1].body.json

ErrorShown == \E k \in 1..Len(shown) : shown[k].kind = "error"

\* the request ended in an HTTP error status and bing_search has returned
HttpErrorReturned ==
    /\ pc \in {"returned", "done"}
    /\ resp # <<>>
    /\ resp[1].status >= 400

\* HTTP 200 with a payload that is not in the expected shape
MalformedPayload ==
    /\ resp # <<>>
    /\ resp[1].status = StatusOK
    /\ \/ ~resp[1].body.json
       \/ resp[1].body.top # "object"
       \/ resp[1].body.webPages # "object"
       \/ resp[1].body.value # "list"
       \/ ItemKeyError(resp[1].body.items)

\* the error messages bing_search shows for a transport failure
TransportErrors == {"http", "connection", "timeout", "request"}

ErrorKinds == {shown[k].what : k \in {n \in 1..Len(shown) : shown[n].kind = "error"}}

----------------------------------------------------------------------------
(* The claims *)

\* C1: every record's choices has exactly 5 entries whose keys are the 5
\* circled digits in canonical order.
C1_FiveCanonicalKeys ==
    \A k \in 1..Len(questions) :
        /\ Len(questions[k].choices) = NumChoices
        /\ \A j \in 1..Len(questions[k].choices) :
              j <= NumChoices /\ questions[k].choices[j].key = Canonical[j]

\* C2: every record's question text is non-empty after trimming and removal
\* of the numeral prefix.
C2_QuestionNonEmpty ==
    \A k \in 1..Len(questions) : questions[k].question # <<>>

\* C3: whatever the request does, bing_search returns to its caller, with an
\* error message shown when the request failed; no exception propagates out.
C3_NeverPropagates ==
    /\ pc # "propagated"
    /\ (pc = "returned" /\ RequestFailed) => ErrorShown

\* C4: a call that ends in an HTTP error status gives its caller a result
\* that differs from the result of a call answered 200 with an empty results
\* list, and main's message for the two differs.
C4_HttpErrorDistinguishable ==
    HttpErrorReturned =>
        /\ result_list # Results(<<>>)
        /\ MainMessage(result_list) # MainMessage(Results(<<>>))

\* C5: a 200 answer whose payload is not in the expected shape is reported as
\* a failure of a kind distinct from transport failure, and is not treated as
\* a well-formed answer with zero results (an empty list and no error).
C5_MalformedIsDistinctFailure ==
    (pc = "returned" /\ MalformedPayload) =>
        /\ ErrorShown
        /\ ErrorKinds \cap TransportErrors = {}

\* C6 as claimed: the question anchors are the occurrences of digits, a dot
\* and one or more whitespace characters of any kind, plus the sentinel.
C6_AnchorsAnyWhitespace == Scanned => RecordsAnchors(AnchorStarts(text, Whitespace))

\* C6 amended: the question anchors are the left-to-right occurrences of
\* digits, a dot and one space character (U+0020), each with its start offset
\* and matched literal, plus the sentinel at the text length.
C6_AnchorsOneSpace ==
    Scanned =>
        /\ RecordsAnchors(AnchorStarts(text, {" "}))
        /\ \A k \in 1..(Len(start_idx) - 1) :
              LET g == start_idx[k].group
                  b == start_idx[k].start
              IN  /\ g = SubSeq(text, b + 1, b + Len(g))
                  /\ Len(g) >= 3
                  /\ g[Len(g)] = " " /\ g[Len(g) - 1] = "."
                  /\ \A r \in 1..(Len(g) - 2) : IsDigit(g[r])

C6_Witness ==
    /\ pc = "loop"
    /\ Len(start_idx) > 2
    /\ \E p \in 1..(Len(text) - 2) :
          IsDigit(text[p]) /\ text[p + 1] = "." /\ text[p + 2] = "TAB"

\* C7 as claimed: the flat text holds no newline at all, keeps the surviving
\* paragraphs in order, and blank paragraphs contribute nothing.
C7_NoNewlineAtAll ==
    pc # "load" =>
        /\ \A k \in 1..Len(text) : text[k] # "NL"
        /\ JoinedInOrder

\* C7 amended: the flat text holds no newline other than those a paragraph
\* has between its first and last non-whitespace characters, keeps the
\* surviving paragraphs in order, trimmed and one space apart, and blank
\* paragraphs contribute nothing, not even a separator.
C7_OnlyInteriorNewlines ==
    pc # "load" =>
        /\ Cardinality({k \in 1..Len(text) : text[k] = "NL"})
             = SumCoreNewlines(paragraphs)
        /\ JoinedInOrder

C7_Witness ==
    /\ pc = "finditer"
    /\ Len(paragraphs) = 2
    /\ Blank(paragraphs[1])
    /\ \E k \in 1..Len(text) : text[k] = "NL"

\* C8: when every segment holds five choice anchors, the text with one of
\* them deleted parses to the same records, in order, less the record of the
\* segment that lost the anchor.
C8_DropsThatRecordOnly ==
    (pc = "parsed" /\ del_pos # 0) =>
        /\ Len(questions) = Len(orig_questions) - 1
        /\ questions = RemoveAt(orig_questions, SegmentAt(del_pos))

C8_Witness ==
    /\ pc = "parsed"
    /\ del_pos # 0
    /\ Len(orig_questions) = 2
    /\ SegmentAt(del_pos) = 1
    /\ Len(questions) = 1

\* C9: a text of n questions written the expected way parses to n records in
\* document order, each with the question text without its numeral and the
\* five choices keyed in canonical order, the values trimmed and free of
\* anchor characters.
C9_WellFormedParses ==
    (pc = "parsed" /\ WellFormedDoc) =>
        /\ Len(questions) = Len(paragraphs)
        /\ \A k \in 1..Len(questions) :
              /\ \E d \in Descriptors :
                    Render(d) = paragraphs[k] /\ questions[k] = Expected(d)
              /\ \A j \in 1..Len(questions[k].choices) :
                    LET v == questions[k].choices[j].value
                    IN  Trimmed(v) /\ \A r \in 1..Len(v) : v[r] \notin ChoiceChars

C9_Witness ==
    /\ pc = "parsed"
    /\ WellFormedDoc
    /\ Len(paragraphs) = 2
    /\ Len(questions) = 2
    /\ questions[1].question = <<"Q", ".", " ", "R">>
    /\ questions[2].choices[2].value = <<>>

\* C10 as claimed: each choice's text runs from an anchor with its label to
\* the next anchor, and the fifth choice's from the fifth anchor to the
\* segment end, also when the segment holds more than five anchors.
C10_FifthToSegmentEnd ==
    Scanned =>
        \A k \in 1..Len(questions) :
            LET seg == SegmentOf(k)
                cs  == questions[k].choices
            IN  \A j \in 1..Len(cs) :
                    /\ \E a \in FirstFive(seg) :
                          /\ seg[a] = cs[j].key
                          /\ j < NumChoices =>
                                cs[j].value = Between(seg, a, NextAnchorOrEnd(seg, a))
                    /\ j = NumChoices =>
                          cs[j].value = Between(seg, Max(FirstFive(seg)), Len(seg) + 1)

\* C10 amended: each choice's text is the trimmed text between the last of
\* the segment's first five anchors that carries its label and the anchor
\* that follows it (the sixth for the fifth, when there is one), or the
\* segment end when no anchor follows; every label among the first five
\* anchors is a key.
C10_ToNextAnchorOrEnd ==
    Scanned =>
        \A k \in 1..Len(questions) :
            LET seg == SegmentOf(k)
                cs  == questions[k].choices
            IN  /\ {cs[j].key : j \in 1..Len(cs)} = {seg[a] : a \in FirstFive(seg)}
                /\ \A j \in 1..Len(cs) :
                      LET a == Max({b \in FirstFive(seg) : seg[b] = cs[j].key})
                      IN  cs[j].value = Between(seg, a, NextAnchorOrEnd(seg, a))

C10_Witness ==
    /\ pc = "parsed"
    /\ \E k \in 1..Len(questions) :
          /\ Cardinality(AnchorsOf(SegmentOf(k))) > NumChoices
          /\ questions[k].choices[NumChoices].value = <<"e">>

====
